---- MODULE Spec2Model ----
(***************************************************************************)
(* A model of impresso_commons/utils/s3.py:                                *)
(*   - read_jsonlines and readtext_jsonlines, the two generators that turn *)
(*     a stored .jsonl.bz2 object into a lazy sequence of records;         *)
(*   - get_bucket_boto3, which looks a bucket up and may create it;        *)
(*   - fixed_s3fs_glob, which lists the keys matching a one-star pattern.  *)
(* Each of the three has its own specification (Spec, SpecBucket,          *)
(* SpecGlob) over its own variables.                                       *)
(***************************************************************************)
EXTENDS Integers, Sequences, FiniteSets, TLC

\* Bounds of the model.
MaxLines == 3
NumInvocations == 2
MaxPathLen == 4
MaxKeys == 2

(***************************************************************************)
(* Text.  A str is a sequence of characters.  A character is the newline,  *)
(* or stands for a newline-free run of text: the text of one JSON object   *)
(* (its members in textual order, duplicate keys allowed), or a run that   *)
(* is no JSON at all.  Two runs side by side on a line are not one JSON    *)
(* document.                                                               *)
(***************************************************************************)
NL == [c |-> "nl"]
Junk == [c |-> "junk"]
Obj(m) == [c |-> "obj", m |-> m]

Str(n) == [t |-> "str", n |-> n]
List(n) == [t |-> "list", n |-> n]
Num(n) == [t |-> "num", n |-> n]
Null == [t |-> "null"]
Member(k, v) == [k |-> k, v |-> v]

\* {"id":"a","x":1,"ft":"","s3v":"a","ts":"ab","tp":"a","cc":2,"pp":[1],
\*  "lg":"a","t":"ab","ft":"ab"}: every allow-listed key, two others, and a
\* repeated key.
DocGood ==
    Obj(<<Member("id", Str(1)), Member("x", Num(1)), Member("ft", Str(0)),
          Member("s3v", Str(1)), Member("ts", Str(2)), Member("tp", Str(1)),
          Member("cc", Num(2)), Member("pp", List(1)), Member("lg", Str(1)),
          Member("t", Str(2)), Member("ft", Str(2))>>)
\* {"id":"ab","ft":"","tp":"a"}
DocEmptyFt == Obj(<<Member("id", Str(2)), Member("ft", Str(0)), Member("tp", Str(1))>>)
\* {"id":"a"}
DocNoFt == Obj(<<Member("id", Str(1))>>)
\* {"id":"a","ft":null}
DocNullFt == Obj(<<Member("id", Str(1)), Member("ft", Null)>>)
\* {"ft":[1],"x":1}
DocListFt == Obj(<<Member("ft", List(1)), Member("x", Num(1))>>)

\* The lines the stored texts are made of: the empty line, one document, a run
\* that is no JSON, two documents on one line.
LineAlphabet ==
    {<<>>, <<DocGood>>, <<DocEmptyFt>>, <<DocNoFt>>, <<DocNullFt>>, <<DocListFt>>,
     <<Junk>>, <<DocGood, DocEmptyFt>>}

RECURSIVE Join(_)
Join(ls) ==
    IF Len(ls) = 1 THEN ls[1] ELSE ls[1] \o <<NL>> \o Join(Tail(ls))

Texts == {Join(ls) : ls \in UNION {[1..n -> LineAlphabet] : n \in 1..MaxLines}}

(***************************************************************************)
(* Bytes.  A byte unit is the UTF-8 encoding of one character, or a byte   *)
(* (0xFF) that no UTF-8 text contains.                                     *)
(***************************************************************************)
BadByte == [b |-> "bad"]
Utf8Encode(s) == [j \in DOMAIN s |-> [b |-> "ok", ch |-> s[j]]]

\* bytes.decode('utf-8')
Utf8Decode(bs) ==
    IF \E j \in DOMAIN bs : bs[j].b = "bad"
    THEN [ok |-> FALSE, val |-> <<>>]
    ELSE [ok |-> TRUE, val |-> [j \in DOMAIN bs |-> bs[j].ch]]

(***************************************************************************)
(* A stored body is a sequence of segments: a complete bzip2 stream with   *)
(* its payload, a truncated stream, or bytes that are no bzip2 stream.     *)
(***************************************************************************)
Stream(p) == [seg |-> "stream", payload |-> p]
Truncated == [seg |-> "truncated"]
Garbage == [seg |-> "garbage"]

\* bz2.decompress(data): `while data:` one decompressor per stream; invalid
\* data raises on the first iteration and is ignored as leftover after it; a
\* stream without its end-of-stream marker raises; no data at all returns b''.
RECURSIVE Bz2Loop(_, _, _)
Bz2Loop(data, results, first) ==
    IF data = <<>> THEN [ok |-> TRUE, val |-> results]
    ELSE IF data[1].seg = "garbage"
         THEN IF first THEN [ok |-> FALSE, val |-> <<>>]
                       ELSE [ok |-> TRUE, val |-> results]
    ELSE IF data[1].seg = "truncated" THEN [ok |-> FALSE, val |-> <<>>]
    ELSE Bz2Loop(Tail(data), results \o data[1].payload, FALSE)

Bz2Decompress(data) == Bz2Loop(data, <<>>, TRUE)

TextA == <<DocGood, NL, DocEmptyFt, NL>>
TextB == <<DocGood>>

Blobs ==
    {<<Stream(Utf8Encode(t))>> : t \in Texts}
    \cup {<<>>, <<Garbage>>, <<Truncated>>,
          <<Stream(<<BadByte>>)>>,
          <<Stream(Utf8Encode(TextA) \o <<BadByte>>)>>,
          <<Stream(Utf8Encode(TextA)), Garbage>>,
          <<Stream(Utf8Encode(TextA)), Truncated>>,
          <<Stream(Utf8Encode(TextA)), Stream(Utf8Encode(TextB))>>}

\* What the store holds under bucket_name/key_name: nothing, or a body.
Objects == {[exists |-> FALSE, blob |-> <<>>]} \cup {[exists |-> TRUE, blob |-> b] : b \in Blobs}

(***************************************************************************)
(* str.split(sep) for a one-character separator: the pieces between the    *)
(* separators, empty ones included; always at least one piece.             *)
(***************************************************************************)
RECURSIVE SplitOn(_, _)
SplitOn(s, sep) ==
    IF s = <<>> THEN << <<>> >>
    ELSE LET rest == SplitOn(Tail(s), sep)
         IN IF Head(s) = sep
            THEN << <<>> >> \o rest
            ELSE << <<Head(s)>> \o rest[1] >> \o Tail(rest)

\* text.split('\n')
Split(s) == SplitOn(s, NL)

(***************************************************************************)
(* JSON.  A dict is a sequence of members with distinct keys, in insertion *)
(* order.                                                                  *)
(***************************************************************************)
HasKey(d, k) == \E j \in DOMAIN d : d[j].k = k
Lookup(d, k) == d[CHOOSE j \in DOMAIN d : d[j].k = k].v
Keys(d) == {d[j].k : j \in DOMAIN d}

DictSet(d, k, v) ==
    IF HasKey(d, k)
    THEN [j \in DOMAIN d |-> IF d[j].k = k THEN Member(k, v) ELSE d[j]]
    ELSE Append(d, Member(k, v))

RECURSIVE DictOf(_)
DictOf(ms) ==
    IF ms = <<>> THEN <<>>
    ELSE DictSet(DictOf(SubSeq(ms, 1, Len(ms) - 1)), ms[Len(ms)].k, ms[Len(ms)].v)

\* json.loads(line): a line holds one JSON document or fails to parse; a
\* repeated key keeps its first place and its last value.
JsonValid(line) == Len(line) = 1 /\ line[1].c = "obj"
JsonLoads(line) == DictOf(line[1].m)

\* json.dumps(d): the text of the object, members in the dict's order.
JsonDumps(d) == <<Obj(d)>>

\* len(x) is defined for str, list and dict and raises TypeError otherwise.
Sized(v) == v.t \in {"str", "list"}
PyLen(v) == v.n

(***************************************************************************)
(* One pass of the loop body over a line: what it yields, skips or raises. *)
(***************************************************************************)
Yield(v) == [kind |-> "yield", val |-> v, err |-> "", rebinds |-> FALSE, ft |-> Null]
Pass == [kind |-> "skip", val |-> <<>>, err |-> "", rebinds |-> FALSE, ft |-> Null]
Raise(e) == [kind |-> "raise", val |-> <<>>, err |-> e, rebinds |-> FALSE, ft |-> Null]
Rebinding(r, v) == [r EXCEPT !.rebinds = TRUE, !.ft = v]

\* `if line != '':`
AlwaysTrue(line) == TRUE
NonEmpty(line) == line /= <<>>

\* read_jsonlines, the loop body.
RawStep(line) == IF NonEmpty(line) THEN Yield(line) ELSE Pass

\* The `k == "id" or k == "s3v" or ...` of the dict comprehension.
AllowedButT(k) ==
    k = "id" \/ k = "s3v" \/ k = "ts" \/ k = "ft" \/ k = "tp" \/ k = "pp" \/ k = "lg"
Allowed(k) ==
    k = "id" \/ k = "s3v" \/ k = "ts" \/ k = "ft" \/ k = "tp" \/ k = "pp"
    \/ k = "lg" \/ k = "t"

\* {k: article_json[k] for k in article_json if ...}
Reduced(article_json) ==
    LET keep == {j \in DOMAIN article_json : Allowed(article_json[j].k)}
        RECURSIVE Take(_)
        Take(j) ==
            IF j > Len(article_json) THEN <<>>
            ELSE IF j \in keep
                 THEN <<Member(article_json[j].k, Lookup(article_json, article_json[j].k))>>
                      \o Take(j + 1)
                 ELSE Take(j + 1)
    IN Take(1)

\* readtext_jsonlines, the loop body: json.loads raises on a line that is no
\* JSON, article_json["ft"] raises KeyError on a missing key, `text` is rebound
\* to the value of ft, and len(text) raises TypeError on a value without a
\* length.
TextStepSkipBad(line) ==
    IF ~NonEmpty(line) \/ ~JsonValid(line) THEN Pass
    ELSE LET article_json == JsonLoads(line)
         IN IF ~HasKey(article_json, "ft") THEN Raise("KeyError")
            ELSE LET ft == Lookup(article_json, "ft")
                 IN IF ~Sized(ft) THEN Rebinding(Raise("TypeError"), ft)
                    ELSE IF PyLen(ft) /= 0
                         THEN Rebinding(Yield(JsonDumps(Reduced(article_json))), ft)
                         ELSE Rebinding(Pass, ft)
TextStep(line) ==
    IF ~NonEmpty(line) THEN Pass
    ELSE IF ~JsonValid(line) THEN Raise("ParseError")
    ELSE LET article_json == JsonLoads(line)
         IN IF ~HasKey(article_json, "ft") THEN Raise("KeyError")
            ELSE LET ft == Lookup(article_json, "ft")
                 IN IF ~Sized(ft) THEN Rebinding(Raise("TypeError"), ft)
                    ELSE IF PyLen(ft) /= 0
                         THEN Rebinding(Yield(JsonDumps(Reduced(article_json))), ft)
                         ELSE Rebinding(Pass, ft)

\* Where the generator stands after a pass of the loop body: `yield` suspends
\* it, an exception ends it, anything else goes on to the next line.
PcAfterEager(kind) == IF kind = "raise" THEN "failed" ELSE "loop"
PcAfter(kind) ==
    IF kind = "yield" THEN "suspended"
    ELSE IF kind = "raise" THEN "failed"
    ELSE "loop"

(***************************************************************************)
(* The generators.  Python runs a generator in the thread of the caller of *)
(* next(): a call of the function only creates the generator, the body     *)
(* runs from a request to the next yield, return or exception.  The model  *)
(* consumes one invocation to its end before the function is called again. *)
(***************************************************************************)
VARIABLES
    object,   \* what the store holds under bucket_name/key_name
    fn,       \* the function called: "read_jsonlines" or "readtext_jsonlines"
    inv,      \* the number of the invocation
    pc,       \* where the generator stands
    body,     \* the local `body`
    data,     \* the local `data`
    plain,    \* bz2.decompress(data), before .decode
    text,     \* the local `text`
    lines,    \* the list text.split('\n') the loop iterates over
    i,        \* the number of lines the loop has taken from the list
    out,      \* the records the consumer has received from this invocation
    from,     \* for each of them, the number of the line it came from
    err,      \* the exception the consumer has received, if any
    nreq,     \* the number of requests (next()) the consumer has made
    log,      \* the steps of this invocation, in the order they ran
    history   \* the outcome of each earlier invocation

readVars ==
    <<object, fn, inv, pc, body, data, plain, text, lines, i, out, from, err, nreq,
      log, history>>

Fns == {"read_jsonlines", "readtext_jsonlines"}
Running == pc \in {"get", "read", "decompress", "decode", "split", "loop"}

InitRead ==
    /\ object \in Objects
    /\ fn \in Fns
    /\ inv = 1
    /\ pc = "new"
    /\ body = <<>> /\ data = <<>> /\ plain = <<>> /\ text = <<>> /\ lines = <<>>
    /\ i = 0
    /\ out = <<>> /\ from = <<>>
    /\ err = ""
    /\ nreq = 0
    /\ log = <<>>
    /\ history = <<>>

\* The consumer asks for the next record: next(gen).
Request ==
    /\ pc \in {"new", "suspended"}
    /\ pc' = IF pc = "new" THEN "get" ELSE "loop"
    /\ nreq' = nreq + 1
    /\ UNCHANGED <<object, fn, inv, body, data, plain, text, lines, i, out, from, err,
                   log, history>>

\* s3r.Object(bucket_name, key_name).get()['Body']
Get ==
    /\ pc = "get"
    /\ log' = Append(log, "get")
    /\ IF object.exists
       THEN body' = object.blob /\ pc' = "read" /\ err' = err
       ELSE body' = body /\ pc' = "failed" /\ err' = "RetrievalError"
    /\ UNCHANGED <<object, fn, inv, data, plain, text, lines, i, out, from, nreq,
                   history>>

\* data = body.read()
Read ==
    /\ pc = "read"
    /\ log' = Append(log, "read")
    /\ data' = body
    /\ pc' = "decompress"
    /\ UNCHANGED <<object, fn, inv, body, plain, text, lines, i, out, from, err, nreq,
                   history>>

\* bz2.decompress(data)
Decompress ==
    /\ pc = "decompress"
    /\ log' = Append(log, "decompress")
    /\ LET r == Bz2Decompress(data)
       IN IF r.ok
          THEN plain' = r.val /\ pc' = "decode" /\ err' = err
          ELSE plain' = plain /\ pc' = "failed" /\ err' = "DecompressionError"
    /\ UNCHANGED <<object, fn, inv, body, data, text, lines, i, out, from, nreq,
                   history>>

\* text = (...).decode('utf-8')
Decode ==
    /\ pc = "decode"
    /\ log' = Append(log, "decode")
    /\ LET r == Utf8Decode(plain)
       IN IF r.ok
          THEN text' = r.val /\ pc' = "split" /\ err' = err
          ELSE text' = text /\ pc' = "failed" /\ err' = "DecodeError"
    /\ UNCHANGED <<object, fn, inv, body, data, plain, lines, i, out, from, nreq,
                   history>>

\* `for line in text.split('\n'):` evaluates the list once, before the loop.
SplitText ==
    /\ pc = "split"
    /\ lines' = Split(text)
    /\ i' = 0
    /\ pc' = "loop"
    /\ UNCHANGED <<object, fn, inv, body, data, plain, text, out, from, err, nreq, log,
                   history>>

\* One turn of the loop: the list is exhausted and the generator returns, or
\* the loop body runs on the next line.
Loop ==
    /\ pc = "loop"
    /\ IF i = Len(lines)
       THEN /\ pc' = "done"
            /\ UNCHANGED <<text, i, out, from, err, log>>
       ELSE LET line == lines[i + 1]
                r == IF fn = "read_jsonlines" THEN RawStep(line) ELSE TextStep(line)
            IN /\ i' = i + 1
               /\ pc' = PcAfter(r.kind)
               /\ text' = IF r.rebinds THEN r.ft ELSE text
               /\ out' = IF r.kind = "yield" THEN Append(out, r.val) ELSE out
               /\ from' = IF r.kind = "yield" THEN Append(from, i + 1) ELSE from
               /\ err' = IF r.kind = "raise" THEN r.err ELSE err
               /\ log' = IF r.kind = "yield" THEN Append(log, "yield") ELSE log
    /\ UNCHANGED <<object, fn, inv, body, data, plain, lines, nreq, history>>

\* The function is called again on the same object, once the sequence of the
\* call before has been consumed to its end: a new generator, new locals.
InvokeCached ==
    /\ pc \in {"done", "failed"}
    /\ inv < NumInvocations
    /\ history' = Append(history, [out |-> out, err |-> err, end |-> pc])
    /\ inv' = inv + 1
    /\ pc' = "done"
    /\ out' = <<>> /\ from' = <<>>
    /\ err' = ""
    /\ nreq' = 0
    /\ log' = <<>>
    /\ UNCHANGED <<object, fn, body, data, plain, text, lines, i>>
Invoke ==
    /\ pc \in {"done", "failed"}
    /\ inv < NumInvocations
    /\ history' = Append(history, [out |-> out, err |-> err, end |-> pc])
    /\ inv' = inv + 1
    /\ pc' = "new"
    /\ body' = <<>> /\ data' = <<>> /\ plain' = <<>> /\ text' = <<>> /\ lines' = <<>>
    /\ i' = 0
    /\ out' = <<>> /\ from' = <<>>
    /\ err' = ""
    /\ nreq' = 0
    /\ log' = <<>>
    /\ UNCHANGED <<object, fn>>

(***************************************************************************)
(* get_bucket_boto3(name, create, versioning).                             *)
(***************************************************************************)
VARIABLES
    buckets,     \* the names of the buckets of the store
    versioned,   \* the names of the buckets with versioning enabled
    bpc,         \* where the call stands
    args,        \* name, create, versioning
    bucket,      \* the local `bucket`: a list of found names, then a bucket
    bvBound,     \* whether the local `bucket_versioning` is bound
    result,      \* what the call returned
    before       \* buckets and versioned when the call was made

bucketVars == <<buckets, versioned, bpc, args, bucket, bvBound, result, before>>

BucketNames == {"testb", "other", "third"}
NoArgs == [name |-> "", create |-> FALSE, versioning |-> FALSE]
NoResult == [kind |-> "none yet", name |-> ""]
None == [kind |-> "None", name |-> ""]
Bucket(n) == [kind |-> "Bucket", name |-> n]

InitBucket ==
    /\ buckets \in SUBSET BucketNames
    /\ versioned \in SUBSET buckets
    /\ bpc = "idle"
    /\ args = NoArgs
    /\ bucket = <<>>
    /\ bvBound = FALSE
    /\ result = NoResult
    /\ before = [buckets |-> buckets, versioned |-> versioned]

\* A call is made (another one, once the one before has ended).
CallGetBucket ==
    /\ bpc \in {"idle", "returned", "raised"}
    /\ \E n \in BucketNames, c \in BOOLEAN, v \in BOOLEAN :
          args' = [name |-> n, create |-> c, versioning |-> v]
    /\ bpc' = "lookup"
    /\ bucket' = <<>>
    /\ bvBound' = FALSE
    /\ result' = NoResult
    /\ before' = [buckets |-> buckets, versioned |-> versioned]
    /\ UNCHANGED <<buckets, versioned>>

\* bucket = [b for b in s3.buckets.all() if b.name == name]
LookupBucket ==
    /\ bpc = "lookup"
    /\ bucket' = IF args.name \in buckets THEN <<Bucket(args.name)>> ELSE <<>>
    /\ bpc' = "assert"
    /\ UNCHANGED <<buckets, versioned, args, bvBound, result, before>>

\* The try block: the bucket found is returned; if none was found it is
\* created when asked for, and None is returned when not.
FoundOrCreate ==
    /\ bpc = "assert"
    /\ IF Len(bucket) > 0
       THEN /\ result' = bucket[1]
            /\ bpc' = "returned"
            /\ UNCHANGED <<buckets, bucket>>
       ELSE IF args.create
            THEN /\ buckets' = buckets \cup {args.name}
                 /\ bucket' = Bucket(args.name)
                 /\ bpc' = "versioning"
                 /\ UNCHANGED result
            ELSE /\ result' = None
                 /\ bpc' = "returned"
                 /\ UNCHANGED <<buckets, bucket>>
    /\ UNCHANGED <<versioned, args, bvBound, before>>

\* if versioning: bucket_versioning = s3.BucketVersioning(name); .enable()
EnableVersioning ==
    /\ bpc = "versioning"
    /\ IF args.versioning
       THEN bvBound' = TRUE /\ versioned' = versioned \cup {args.name}
       ELSE UNCHANGED <<bvBound, versioned>>
    /\ bpc' = "print"
    /\ UNCHANGED <<buckets, args, bucket, result, before>>

\* print(f"Versioning: {bucket_versioning.status}"); return bucket.  Reading
\* a local that was never bound raises UnboundLocalError.
PrintAndReturn ==
    /\ bpc = "print"
    /\ IF bvBound
       THEN result' = bucket /\ bpc' = "returned"
       ELSE result' = result /\ bpc' = "raised"
    /\ UNCHANGED <<buckets, versioned, args, bucket, bvBound, before>>

(***************************************************************************)
(* fixed_s3fs_glob(path, boto3_bucket).  A str is a sequence of one-       *)
(* character strings.  The store holds one bucket, "b".                    *)
(***************************************************************************)
VARIABLES
    listing,     \* the keys of bucket "b", in the order the store lists them
    path,        \* the argument `path`
    passed,      \* whether boto3_bucket is given (the bucket "b") or None
    gpc,         \* where the call stands
    bucket_name, \* the local `bucket_name`
    base_path,   \* the local `base_path`
    suffix_path, \* the local `suffix_path`
    filenames    \* what the call returned

globVars == <<listing, path, passed, gpc, bucket_name, base_path, suffix_path, filenames>>

Scheme == <<"s", "3", ":", "/", "/">>
TheBucket == <<"b">>
PathChars == {"b", "/", "*"}
KeyNames == {<<"b">>, <<"/", "b">>, <<"b", "b">>, <<"b", "/", "b">>}

SeqsUpTo(S, n) == UNION {[1..m -> S] : m \in 0..n}
Paths == {pre \o p : pre \in {<<>>, Scheme}, p \in SeqsUpTo(PathChars, MaxPathLen)}
Listings == {l \in SeqsUpTo(KeyNames, MaxKeys) : \A j, k \in DOMAIN l : j /= k => l[j] /= l[k]}

\* str.startswith, str.endswith
StartsWith(s, p) == Len(p) <= Len(s) /\ SubSeq(s, 1, Len(p)) = p
EndsWith(s, p) == Len(p) <= Len(s) /\ SubSeq(s, Len(s) - Len(p) + 1, Len(s)) = p

\* "/".join(parts)
RECURSIVE SlashJoin(_)
SlashJoin(parts) ==
    IF parts = <<>> THEN <<>>
    ELSE IF Len(parts) = 1 THEN parts[1]
    ELSE parts[1] \o <<"/">> \o SlashJoin(Tail(parts))

\* os.path.join(a, b) on POSIX: an absolute b discards a.
OsPathJoin(a, b) ==
    IF StartsWith(b, <<"/">>) THEN b
    ELSE IF a = <<>> \/ EndsWith(a, <<"/">>) THEN a \o b
    ELSE a \o <<"/">> \o b

\* boto3_bucket.objects.filter(Prefix=base_path): the keys with that prefix, in
\* listing order.
RECURSIVE Filter(_, _)
Filter(l, prefix) ==
    IF l = <<>> THEN <<>>
    ELSE IF StartsWith(l[1], prefix) THEN <<l[1]>> \o Filter(Tail(l), prefix)
    ELSE Filter(Tail(l), prefix)

\* The list comprehension of fixed_s3fs_glob.
RECURSIVE Filenames(_, _, _)
Filenames(objs, name, suffix) ==
    IF objs = <<>> THEN <<>>
    ELSE IF EndsWith(objs[1], suffix)
         THEN <<Scheme \o OsPathJoin(name, objs[1])>> \o Filenames(Tail(objs), name, suffix)
         ELSE Filenames(Tail(objs), name, suffix)

InitGlob ==
    /\ listing \in Listings
    /\ path \in Paths
    /\ passed \in BOOLEAN
    /\ gpc = "resolve"
    /\ bucket_name = <<>> /\ base_path = <<>> /\ suffix_path = <<>>
    /\ filenames = <<>>

\* The if/else that finds the bucket's name and the pattern.
ResolveBucket ==
    /\ gpc = "resolve"
    /\ IF ~passed
       THEN LET p == IF StartsWith(path, Scheme)
                     THEN SubSeq(path, Len(Scheme) + 1, Len(path))
                     ELSE path
                parts == SplitOn(p, "/")
            IN /\ bucket_name' = parts[1]
               /\ base_path' = SlashJoin(Tail(parts))
       ELSE /\ bucket_name' = TheBucket
            /\ base_path' = path
    /\ gpc' = "split"
    /\ UNCHANGED <<listing, path, passed, suffix_path, filenames>>

\* base_path, suffix_path = base_path.split("*"): unpacking anything but two
\* pieces raises ValueError.
SplitPattern ==
    /\ gpc = "split"
    /\ LET parts == SplitOn(base_path, "*")
       IN IF Len(parts) = 2
          THEN base_path' = parts[1] /\ suffix_path' = parts[2] /\ gpc' = "list"
          ELSE UNCHANGED <<base_path, suffix_path>> /\ gpc' = "raised"
    /\ UNCHANGED <<listing, path, passed, bucket_name, filenames>>

\* The listing and the return; listing a bucket the store does not hold raises.
ListKeys ==
    /\ gpc = "list"
    /\ IF bucket_name = TheBucket
       THEN /\ filenames' = Filenames(Filter(listing, base_path), bucket_name, suffix_path)
            /\ gpc' = "returned"
       ELSE /\ UNCHANGED filenames
            /\ gpc' = "raised"
    /\ UNCHANGED <<listing, path, passed, bucket_name, base_path, suffix_path>>

(***************************************************************************)
(* The specifications.  Each runs one part and holds the others still.     *)
(***************************************************************************)
vars == <<readVars, bucketVars, globVars>>

ReadIdle ==
    /\ object = [exists |-> FALSE, blob |-> <<>>]
    /\ fn = "read_jsonlines"
    /\ inv = 1
    /\ pc = "idle"
    /\ body = <<>> /\ data = <<>> /\ plain = <<>> /\ text = <<>> /\ lines = <<>>
    /\ i = 0
    /\ out = <<>> /\ from = <<>>
    /\ err = ""
    /\ nreq = 0
    /\ log = <<>>
    /\ history = <<>>

BucketIdle ==
    /\ buckets = {} /\ versioned = {}
    /\ bpc = "off"
    /\ args = NoArgs
    /\ bucket = <<>>
    /\ bvBound = FALSE
    /\ result = NoResult
    /\ before = [buckets |-> {}, versioned |-> {}]

GlobIdle ==
    /\ listing = <<>> /\ path = <<>> /\ passed = FALSE
    /\ gpc = "off"
    /\ bucket_name = <<>> /\ base_path = <<>> /\ suffix_path = <<>>
    /\ filenames = <<>>

Init == InitRead /\ BucketIdle /\ GlobIdle
Next ==
    \/ Request /\ UNCHANGED <<bucketVars, globVars>>
    \/ Get /\ UNCHANGED <<bucketVars, globVars>>
    \/ Read /\ UNCHANGED <<bucketVars, globVars>>
    \/ Decompress /\ UNCHANGED <<bucketVars, globVars>>
    \/ Decode /\ UNCHANGED <<bucketVars, globVars>>
    \/ SplitText /\ UNCHANGED <<bucketVars, globVars>>
    \/ Loop /\ UNCHANGED <<bucketVars, globVars>>
    \/ Invoke /\ UNCHANGED <<bucketVars, globVars>>
Spec == Init /\ [][Next]_vars

InitB == InitBucket /\ ReadIdle /\ GlobIdle
NextB ==
    \/ CallGetBucket /\ UNCHANGED <<readVars, globVars>>
    \/ LookupBucket /\ UNCHANGED <<readVars, globVars>>
    \/ FoundOrCreate /\ UNCHANGED <<readVars, globVars>>
    \/ EnableVersioning /\ UNCHANGED <<readVars, globVars>>
    \/ PrintAndReturn /\ UNCHANGED <<readVars, globVars>>
SpecBucket == InitB /\ [][NextB]_vars

InitG == InitGlob /\ ReadIdle /\ BucketIdle
NextG ==
    \/ ResolveBucket /\ UNCHANGED <<readVars, bucketVars>>
    \/ SplitPattern /\ UNCHANGED <<readVars, bucketVars>>
    \/ ListKeys /\ UNCHANGED <<readVars, bucketVars>>
SpecGlob == InitG /\ [][NextG]_vars

(***************************************************************************)
(* Reference definitions for the properties below.                         *)
(***************************************************************************)
IsPrefix(a, b) == Len(a) <= Len(b) /\ SubSeq(b, 1, Len(a)) = a

\* The non-empty lines of a text, read off the text itself: the maximal
\* newline-free runs, by the position they start at.
RunStarts(s) == {a \in DOMAIN s : s[a] /= NL /\ (a = 1 \/ s[a - 1] = NL)}
RunEnd(s, a) ==
    CHOOSE b \in a..Len(s) :
        /\ \A j \in a..b : s[j] /= NL
        /\ (b = Len(s) \/ s[b + 1] = NL)
RECURSIVE RunsFrom(_, _)
RunsFrom(s, starts) ==
    IF starts = {} THEN <<>>
    ELSE LET a == CHOOSE x \in starts : \A y \in starts : x <= y
         IN <<SubSeq(s, a, RunEnd(s, a))>> \o RunsFrom(s, starts \ {a})
NonEmptyLines(s) == RunsFrom(s, RunStarts(s))

Range(f) == {f[j] : j \in DOMAIN f}
Increasing(f) == \A j, k \in DOMAIN f : j < k => f[j] < f[k]
AllowList == {"id", "s3v", "ts", "ft", "tp", "pp", "lg", "t"}
MalformedLine(l) == l /= <<>> /\ ~JsonValid(l)
IsText == fn = "readtext_jsonlines"
IsRaw == fn = "read_jsonlines"

\* C1: once the object is decompressed and decoded, read_jsonlines yields the
\* non-empty lines of the text, unchanged and in order (a prefix of them while
\* it is being consumed, all of them when it is done), and never an empty
\* string.
C1_RawLinesInOrder ==
    (IsRaw /\ pc \in {"loop", "suspended", "done"}) =>
        /\ IsPrefix(out, NonEmptyLines(text))
        /\ (pc = "done" => out = NonEmptyLines(text))
        /\ \A k \in DOMAIN out : out[k] /= <<>>

\* read_jsonlines has finished a text with an empty line between two records.
C1_Witness ==
    /\ IsRaw /\ pc = "done"
    /\ Len(lines) = 3 /\ lines[2] = <<>>
    /\ Len(out) = 2

\* C4: every string readtext_jsonlines yields is the text of one object whose
\* keys are the allow-listed keys of the record it comes from, each with the
\* value it has there.
C4_AllowListProjection ==
    IsText =>
        \A k \in DOMAIN out :
            /\ Len(out[k]) = 1 /\ out[k][1].c = "obj"
            /\ LET o == JsonLoads(out[k])
                   src == JsonLoads(lines[from[k]])
               IN /\ Keys(o) = Keys(src) \cap AllowList
                  /\ \A key \in Keys(o) : Lookup(o, key) = Lookup(src, key)

\* A record with all eight allow-listed keys and others has been projected.
C4_Witness ==
    /\ IsText /\ out /= <<>>
    /\ \E k \in DOMAIN out :
          /\ Keys(JsonLoads(out[k])) = AllowList
          /\ Keys(JsonLoads(lines[from[k]])) \ AllowList /= {}

C5_State ==
    IsText =>
        /\ \A j \in 1..i :
              MalformedLine(lines[j]) => (j = i /\ pc = "failed" /\ err = "ParseError")
        /\ (pc = "failed" /\ err = "ParseError") =>
              /\ i >= 1 /\ MalformedLine(lines[i])
              /\ \A k \in DOMAIN from : from[k] < i
        /\ Len(from) = Len(out)
C5_Step ==
    (IsText /\ inv' = inv) =>
        /\ IsPrefix(out, out')
        /\ (pc = "failed" => (pc' = "failed" /\ out' = out /\ i' = i /\ err' = err))

\* C5: readtext_jsonlines never gets past a non-empty line that is not JSON:
\* it ends there with the parse error, the records of the lines before it
\* delivered, nothing delivered for that line or a later one; and within an
\* invocation what was delivered stays delivered and a failed generator
\* stays failed.
C5_ParseErrorEndsTheSequence == []C5_State /\ [][C5_Step]_vars

\* The parse error arrives after a record was delivered and before a line that
\* would have yielded one.
C5_Witness ==
    /\ IsText /\ pc = "failed" /\ err = "ParseError"
    /\ Len(out) = 1 /\ i = 2 /\ Len(lines) = 3
    /\ lines[3] = <<DocGood>>

\* C7: an invocation consumed to its end delivers what every earlier
\* invocation on the same object delivered: the same records in the same
\* order, and the same end (exhausted, or the same error).
C7_SameSequenceAgain ==
    pc \in {"done", "failed"} =>
        \A h \in DOMAIN history : history[h] = [out |-> out, err |-> err, end |-> pc]

\* A second invocation has been consumed to its end after two records.
C7_Witness ==
    /\ inv = 2 /\ pc = "done" /\ nreq = 3
    /\ Len(out) = 2 /\ Len(history) = 1

StepAt(j) ==
    IF j = 1 THEN "get"
    ELSE IF j = 2 THEN "read"
    ELSE IF j = 3 THEN "decompress"
    ELSE IF j = 4 THEN "decode"
    ELSE "yield"

\* C9: the steps of an invocation come in order (one get, then the read, the
\* decompression, the decoding, and only then yields), nothing runs before the
\* first request, the body runs only while a request is unanswered, so that at
\* most one record is delivered per request, and between requests no step of
\* the generator is enabled.
C9_OrderedLazySteps ==
    /\ \A j \in DOMAIN log : log[j] = StepAt(j)
    /\ Len(out) = Cardinality({j \in DOMAIN log : log[j] = "yield"})
    /\ Len(out) <= nreq
    /\ Running => nreq = Len(out) + 1
    /\ pc = "new" => (nreq = 0 /\ log = <<>>)
    /\ ~Running => ~ENABLED (Get \/ Read \/ Decompress \/ Decode \/ SplitText \/ Loop)

\* The consumer has one record and has not asked again; lines are left.
C9_Witness ==
    /\ pc = "suspended" /\ nreq = 1
    /\ log = <<"get", "read", "decompress", "decode", "yield">>
    /\ i < Len(lines)

(***************************************************************************)
(* Statements the code does not meet.                                      *)
(***************************************************************************)
CarriesFt(l) == JsonValid(l) /\ HasKey(JsonLoads(l), "ft")
NonEmptyStringFt(l) ==
    /\ l /= <<>>
    /\ Lookup(JsonLoads(l), "ft").t = "str"
    /\ Lookup(JsonLoads(l), "ft").n > 0

\* C2: on an input whose non-empty lines are all JSON objects with an ft key,
\* readtext_jsonlines yields one string for each line whose ft is a non-empty
\* string, in line order, and nothing for any other line, whatever the type of
\* its ft.
C2_OneRecordPerNonEmptyStringFt ==
    (IsText /\ Len(lines) >= 1 /\ \A j \in DOMAIN lines : lines[j] /= <<>> => CarriesFt(lines[j])) =>
        /\ pc /= "failed"
        /\ Increasing(from)
        /\ \A j \in 1..i : (j \in Range(from)) <=> NonEmptyStringFt(lines[j])
        /\ Len(out) <= Cardinality({j \in DOMAIN lines : lines[j] /= <<>>})

\* C3: a JSON object line without an ft key raises no error and yields
\* nothing.
C3_MissingFtIsSkipped ==
    (IsText /\ i >= 1 /\ JsonValid(lines[i]) /\ ~HasKey(JsonLoads(lines[i]), "ft")) =>
        (pc /= "failed" /\ i \notin Range(from))

ValidCompressed(blob) == blob /= <<>> /\ \A j \in DOMAIN blob : blob[j].seg = "stream"
ValidUtf8(blob) ==
    \A j \in DOMAIN blob : \A b \in DOMAIN blob[j].payload : blob[j].payload[b].b = "ok"
BadObject ==
    \/ ~object.exists
    \/ ~ValidCompressed(object.blob)
    \/ ~ValidUtf8(object.blob)

\* C6: an object that cannot be retrieved, whose bytes are not a valid
\* compressed stream, or whose decompressed bytes are not UTF-8, ends in an
\* error with no record delivered, never in an exhausted sequence.
C6_BadInputIsAnError ==
    BadObject => (out = <<>> /\ pc /= "done")

\* C8: get_bucket_boto3 does what its docstring says for every combination of
\* its flags: an existing bucket is returned and nothing is created or
\* touched; a missing one gives None without create; with create it is
\* created, versioned exactly when versioning is true, and returned.
C8_GetBucketAsDocumented ==
    bpc \in {"returned", "raised"} =>
        IF args.name \in before.buckets
        THEN /\ bpc = "returned" /\ result = Bucket(args.name)
             /\ buckets = before.buckets /\ versioned = before.versioned
        ELSE IF ~args.create
        THEN /\ bpc = "returned" /\ result = None
             /\ buckets = before.buckets /\ versioned = before.versioned
        ELSE /\ bpc = "returned" /\ result = Bucket(args.name)
             /\ buckets = before.buckets \cup {args.name}
             /\ versioned = before.versioned
                            \cup (IF args.versioning THEN {args.name} ELSE {})

Stars(s) == Cardinality({j \in DOMAIN s : s[j] = "*"})
Unschemed == IF StartsWith(path, Scheme) THEN SubSeq(path, Len(Scheme) + 1, Len(path)) ELSE path
Slashes == {j \in DOMAIN Unschemed : Unschemed[j] = "/"}
FirstSlash == CHOOSE j \in Slashes : \A k \in Slashes : j <= k
PathBucket ==
    IF passed THEN TheBucket
    ELSE IF Slashes = {} THEN Unschemed
    ELSE SubSeq(Unschemed, 1, FirstSlash - 1)
Pattern ==
    IF passed THEN path
    ELSE IF Slashes = {} THEN <<>>
    ELSE SubSeq(Unschemed, FirstSlash + 1, Len(Unschemed))
StarAt == CHOOSE j \in DOMAIN Pattern : Pattern[j] = "*"
Matches(key) ==
    /\ StartsWith(key, SubSeq(Pattern, 1, StarAt - 1))
    /\ EndsWith(key, SubSeq(Pattern, StarAt + 1, Len(Pattern)))
RECURSIVE Rendered(_)
Rendered(l) ==
    IF l = <<>> THEN <<>>
    ELSE IF Matches(l[1])
         THEN <<Scheme \o PathBucket \o <<"/">> \o l[1]>> \o Rendered(Tail(l))
         ELSE Rendered(Tail(l))

\* C10: for a pattern with exactly one `*`, fixed_s3fs_glob returns, in
\* listing order, s3://<bucket>/<key> for exactly the keys that start with
\* what precedes the `*` and end with what follows it, whether the bucket is
\* read off the path or passed in; a path with no `*` or several is an error.
C10_GlobListsMatchingKeys ==
    gpc \in {"returned", "raised"} =>
        /\ Stars(path) /= 1 => gpc = "raised"
        /\ (Stars(path) = 1 /\ Stars(Pattern) = 1 /\ PathBucket = TheBucket) =>
              (gpc = "returned" /\ filenames = Rendered(listing))

====
